---- MODULE Spec2Model ----
(***************************************************************************)
(* Model of the go-api handlers                                            *)
(*   controllers/oauth/facebook/facebook.go  (BeginAuth, Authenticate)     *)
(*   controllers/topic.go                    (GetTopics, GetATopic)        *)
(*                                                                         *)
(* Strings that the code takes apart or assembles (URLs, query strings)    *)
(* are sequences of chunks; a chunk is either one reserved character       *)
(* ("?", "=", "&", ":", "/", " ") or a run of unreserved characters.       *)
(* OAuth requests are goroutines that interleave on the package variable   *)
(* oauthConf and on the user storage; one action is one step of a handler  *)
(* between two accesses of shared state.                                   *)
(***************************************************************************)
EXTENDS Integers, Sequences, FiniteSets, TLC

VARIABLES oauthConf, users, req, tReq, tCalls, tResp

vars == <<oauthConf, users, req, tReq, tCalls, tResp>>
oauthVars == <<oauthConf, users, req>>
topicVars == <<tReq, tCalls, tResp>>

(***************************************************************************)
(* Bounds of the model                                                     *)
(***************************************************************************)
MaxReqs == 3
MaxTopics == 3
MaxLimit == 2
MaxOffset == 2

Reqs == 1..MaxReqs

(***************************************************************************)
(* Program constants                                                       *)
(***************************************************************************)
StatusTemporaryRedirect == 307
StatusUnauthorized == 401
StatusInternalServerError == 500
StatusOK == 200
StatusNotFound == 404
DefaultLimit == 10
DefaultSort == "-publishedDate"
DefaultLocation == <<"https", ":", "/", "/", "www.twreporter.org">>

\* utils.Cfg values and the library endpoint, fixed for the run
Statestr == "statestr"
FacebookURL == <<"callback">>
AppPath == <<"app">>
ClientID == "clientid"
AuthURL == <<"fbauth">>
Scopes == <<"public_profile", "email">>

Nil == [isNil |-> TRUE, RedirectURL |-> <<>>]

(***************************************************************************)
(* net/url as the handlers use it                                          *)
(***************************************************************************)
\* url.QueryEscape on one chunk
EscapeChunk(c) ==
  CASE c = "?" -> "%3F"
    [] c = "=" -> "%3D"
    [] c = "&" -> "%26"
    [] c = ":" -> "%3A"
    [] c = "/" -> "%2F"
    [] c = " " -> "+"
    [] OTHER -> c

QueryEscape(s) == [i \in 1..Len(s) |-> EscapeChunk(s[i])]

\* index of the first "?" of s, 0 when there is none
FirstQ(s) ==
  IF \E i \in 1..Len(s) : s[i] = "?"
  THEN CHOOSE i \in 1..Len(s) : s[i] = "?" /\ \A j \in 1..(i-1) : s[j] # "?"
  ELSE 0

\* url.Parse: a leading ":" is "missing protocol scheme"; the query is what
\* follows the first "?"
Parse(s) ==
  [err |-> (s # <<>> /\ s[1] = ":"),
   path |-> IF FirstQ(s) = 0 THEN s ELSE SubSeq(s, 1, FirstQ(s) - 1),
   RawQuery |-> IF FirstQ(s) = 0 THEN <<>> ELSE SubSeq(s, FirstQ(s) + 1, Len(s))]

\* (*URL).String
String(u) == IF u.RawQuery = <<>> THEN u.path ELSE u.path \o <<"?">> \o u.RawQuery

\* url.Values{}.Add(k, v) followed by Encode(), one key
Encode1(k, v) == <<k, "=">> \o QueryEscape(v)


\* URL.RawQuery of BeginAuth: the five parameters, Encode() sorts them by key
AuthQuery(redirectURL) ==
  Encode1("client_id", <<ClientID>>) \o <<"&">> \o
  Encode1("redirect_uri", redirectURL) \o <<"&">> \o
  Encode1("response_type", <<"code">>) \o <<"&">> \o
  Encode1("scope", <<Scopes[1], " ", Scopes[2]>>) \o <<"&">> \o
  Encode1("state", <<Statestr>>)

(***************************************************************************)
(* Storage and token collaborators                                         *)
(***************************************************************************)
AIds == {"fb1", "fb2"}

ZeroUser == [ID |-> 0, Privilege |-> 0, FirstName |-> "", LastName |-> "", Email |-> ""]

\* the local user InsertUserByOAuth creates for a profile
NewUser(aid, id) ==
  [ID |-> id, Privilege |-> 0, FirstName |-> aid, LastName |-> aid, Email |-> aid]

Stored(aid) == users[aid].ID # 0

NextID == 1 + Cardinality({a \in AIds : Stored(a)})

\* utils.RetrieveToken: the signed token of the five fields, "" with an error
RetrieveToken(id, privilege, firstName, lastName, email, fails) ==
  IF fails THEN <<>>
  ELSE <<"jwt" \o ToString(<<id, privilege, firstName, lastName, email>>)>>

(***************************************************************************)
(* HTTP response writes of one request, in the order they are made         *)
(***************************************************************************)
Redirect(url) == [kind |-> "redirect", status |-> StatusTemporaryRedirect, url |-> url]
JSON(status) == [kind |-> "json", status |-> status, url |-> <<>>]

loginPath == AppPath \o <<"/login">>

IdleReq ==
  [kind |-> "none", pc |-> "idle", location |-> <<>>, state |-> "",
   redirectURL |-> <<>>, sawNil |-> FALSE, exchangeURL |-> <<>>,
   aid |-> "", known |-> FALSE, lookupErr |-> FALSE, insertErr |-> FALSE,
   matchUser |-> ZeroUser, tokenErr |-> FALSE, failed |-> "",
   calls |-> <<>>, resp |-> <<>>]

\* the values of the `location` query parameter the requests carry
Locations ==
  { <<>>,
    <<"siteA">>,
    <<"siteB", "?", "k", "=", "v">>,
    <<":", "bad">> }

States == {Statestr, "forged"}

\* request slots are taken in order; requests in flight interleave freely
CanStart(r) == req[r].pc = "idle" /\ (IF r = 1 THEN TRUE ELSE req[r-1].pc # "idle")

(***************************************************************************)
(* BeginAuth                                                               *)
(***************************************************************************)
\* initOauthConfig, lines 30-35: the redirect URL of a location
RedirectURLOf(location) ==
  FacebookURL \o <<"?", "location", "=">> \o
  QueryEscape(IF location = <<>> THEN DefaultLocation ELSE location)

\* BeginAuth entry and initOauthConfig up to the nil test of oauthConf
BeginAuth(r, location) ==
  /\ CanStart(r)
  /\ req' = [req EXCEPT ![r] =
       [@ EXCEPT !.kind = "begin", !.pc = "init", !.location = location,
                 !.redirectURL = RedirectURLOf(location),
                 !.sawNil = oauthConf.isNil]]
  /\ UNCHANGED <<oauthConf, users, topicVars>>

\* initOauthConfig, the branch taken: build the config or overwrite RedirectURL
initOauthConfig(r) ==
  /\ req[r].kind = "begin" /\ req[r].pc = "init"
  /\ oauthConf' = IF req[r].sawNil
                  THEN [isNil |-> FALSE, RedirectURL |-> req[r].redirectURL]
                  ELSE [oauthConf EXCEPT !.RedirectURL = req[r].redirectURL]
  /\ req' = [req EXCEPT ![r].pc = "redirect"]
  /\ UNCHANGED <<users, topicVars>>

\* the redirect_uri BeginAuth puts in the authorization URL
RedirectURIRead(r) == oauthConf.RedirectURL

\* BeginAuth, lines 55-67: read oauthConf back and redirect to the provider
BeginAuthRedirect(r) ==
  /\ req[r].kind = "begin" /\ req[r].pc = "redirect"
  /\ req' = [req EXCEPT ![r] =
       [@ EXCEPT !.pc = "done",
                 !.resp = Append(@, Redirect(
                    String([Parse(AuthURL) EXCEPT
                              !.RawQuery = AuthQuery(RedirectURIRead(r))])))]]
  /\ UNCHANGED <<oauthConf, users, topicVars>>

(***************************************************************************)
(* Authenticate (the OAuth callback) and getRemoteUserData                 *)
(***************************************************************************)
\* mutant: the anti-forgery test always passes
StateMatches_Always(state) == TRUE

\* getRemoteUserData, line 142: the anti-forgery test
StateMatches(state) == state = Statestr

\* what Authenticate writes when getRemoteUserData returned an error:
\* the helper's redirect to the login page, then the 401 JSON of line 78
RemoteFailure(resp) ==
  resp \o <<Redirect(loginPath), JSON(StatusUnauthorized)>>

\* Authenticate entry, lines 72-76, and getRemoteUserData lines 137-147
Authenticate(r, state, location) ==
  /\ CanStart(r)
  /\ req' = [req EXCEPT ![r] =
       IF StateMatches(state)
       THEN [@ EXCEPT !.kind = "callback", !.pc = "exchange",
                      !.location = location, !.state = state]
       ELSE [@ EXCEPT !.kind = "callback", !.pc = "done",
                      !.location = location, !.state = state,
                      !.failed = "state", !.resp = RemoteFailure(@)]]
  /\ UNCHANGED <<oauthConf, users, topicVars>>

\* mutant: the return after a failed exchange left out
Exchange_NoReturn(r) ==
  /\ req[r].kind = "callback" /\ req[r].pc = "exchange"
  /\ ~oauthConf.isNil
  /\ \E ok \in BOOLEAN :
       req' = [req EXCEPT ![r] =
         IF ok
         THEN [@ EXCEPT !.pc = "fetch", !.calls = Append(@, "Exchange"),
                        !.exchangeURL = oauthConf.RedirectURL]
         ELSE [@ EXCEPT !.pc = "fetch", !.calls = Append(@, "Exchange"),
                        !.exchangeURL = oauthConf.RedirectURL,
                        !.failed = "exchange", !.resp = RemoteFailure(@)]]
  /\ UNCHANGED <<oauthConf, users, topicVars>>

\* getRemoteUserData, lines 149-154: oauthConf.Exchange; a nil oauthConf is
\* dereferenced and the goroutine panics
Exchange(r) ==
  /\ req[r].kind = "callback" /\ req[r].pc = "exchange"
  /\ \/ /\ oauthConf.isNil
        /\ req' = [req EXCEPT ![r] = [@ EXCEPT !.pc = "panic", !.failed = "nil"]]
     \/ /\ ~oauthConf.isNil
        /\ \E ok \in BOOLEAN :
             req' = [req EXCEPT ![r] =
               IF ok
               THEN [@ EXCEPT !.pc = "fetch", !.calls = Append(@, "Exchange"),
                              !.exchangeURL = oauthConf.RedirectURL]
               ELSE [@ EXCEPT !.pc = "done", !.calls = Append(@, "Exchange"),
                              !.exchangeURL = oauthConf.RedirectURL,
                              !.failed = "exchange", !.resp = RemoteFailure(@)]]
  /\ UNCHANGED <<oauthConf, users, topicVars>>

\* getRemoteUserData, lines 157-173: http.Get and ioutil.ReadAll, then the
\* decoding of the profile, lines 87-96
FetchProfile(r) ==
  /\ req[r].kind = "callback" /\ req[r].pc = "fetch"
  /\ \/ \E aid \in AIds :
          req' = [req EXCEPT ![r] =
            [@ EXCEPT !.pc = "lookup", !.calls = Append(@, "Get"), !.aid = aid]]
     \/ \E why \in {"get", "read"} :
          req' = [req EXCEPT ![r] =
            [@ EXCEPT !.pc = "done", !.calls = Append(@, "Get"),
                      !.failed = why, !.resp = RemoteFailure(@)]]
  /\ UNCHANGED <<oauthConf, users, topicVars>>

\* Storage.GetUserDataByOAuth: the stored user, or the zero user and an error
\* when the account is not stored or the read fails
LookupResults(aid) ==
  {[user |-> ZeroUser, err |-> TRUE]} \cup
  (IF Stored(aid) THEN {[user |-> users[aid], err |-> FALSE]} ELSE {})

\* Authenticate, line 104: matchUser, err := o.Storage.GetUserDataByOAuth(...)
GetUserDataByOAuth(r) ==
  /\ req[r].kind = "callback" /\ req[r].pc = "lookup"
  /\ \E res \in LookupResults(req[r].aid) :
       req' = [req EXCEPT ![r] =
         [@ EXCEPT !.pc = "reconcile",
                   !.calls = Append(@, "GetUserDataByOAuth"),
                   !.known = Stored(req[r].aid),
                   !.lookupErr = res.err,
                   !.matchUser = res.user]]
  /\ UNCHANGED <<oauthConf, users, topicVars>>

\* Storage.InsertUserByOAuth: the storage with the new user, or the storage
\* as it was and an error; an account already stored is not inserted again
InsertResults(aid) ==
  {[users |-> users, err |-> TRUE]} \cup
  (IF Stored(aid) THEN {}
   ELSE {[users |-> [users EXCEPT ![aid] = NewUser(aid, NextID)], err |-> FALSE]})

\* mutant: the two branches of the reconciliation swapped
ReconcileCall_Swapped(err) == IF err THEN "UpdateOAuthData" ELSE "InsertUserByOAuth"

\* Authenticate, lines 106-116: which storage call follows the lookup
ReconcileCall(err) == IF err THEN "InsertUserByOAuth" ELSE "UpdateOAuthData"

\* Authenticate, lines 106-116: insert or update; the result of neither call
\* is looked at
Reconcile(r) ==
  /\ req[r].kind = "callback" /\ req[r].pc = "reconcile"
  /\ \/ /\ ReconcileCall(req[r].lookupErr) = "InsertUserByOAuth"
        /\ \E res \in InsertResults(req[r].aid) :
             /\ users' = res.users
             /\ req' = [req EXCEPT ![r] =
                  [@ EXCEPT !.pc = "token", !.insertErr = res.err,
                            !.calls = Append(@, "InsertUserByOAuth")]]
     \/ /\ ReconcileCall(req[r].lookupErr) = "UpdateOAuthData"
        /\ users' = users
        /\ req' = [req EXCEPT ![r] =
             [@ EXCEPT !.pc = "token", !.calls = Append(@, "UpdateOAuthData")]]
  /\ UNCHANGED <<oauthConf, topicVars>>

\* mutant: the token derived from the user the storage holds for the account
TokenUser_Stored(r) == users[req[r].aid]

\* Authenticate, lines 118-119: the user the token is derived from
TokenUser(r) == req[r].matchUser

\* Authenticate, lines 127-130: the redirect target built from the parsed
\* location and the token
TokenURL(u, token) == String([u EXCEPT !.RawQuery = Encode1("token", token)])

\* Authenticate, lines 118-131: RetrieveToken (its error is overwritten by
\* url.Parse's), url.Parse(location), then the 500 JSON or the redirect
IssueToken(r) ==
  /\ req[r].kind = "callback" /\ req[r].pc = "token"
  /\ \E fails \in BOOLEAN :
       LET m == TokenUser(r)
           token == RetrieveToken(m.ID, m.Privilege, m.FirstName, m.LastName,
                                  m.Email, fails)
           u == Parse(req[r].location)
       IN req' = [req EXCEPT ![r] =
            [@ EXCEPT !.pc = "done", !.tokenErr = fails,
                      !.calls = Append(@, "RetrieveToken"),
                      !.failed = IF u.err THEN "location" ELSE @,
                      !.resp = IF u.err
                               THEN Append(@, JSON(StatusInternalServerError))
                               ELSE Append(@, Redirect(TokenURL(u, token)))]]
  /\ UNCHANGED <<oauthConf, users, topicVars>>

OAuthNext ==
  \E r \in Reqs :
    \/ \E location \in Locations : BeginAuth(r, location)
    \/ initOauthConfig(r)
    \/ BeginAuthRedirect(r)
    \/ \E state \in States, location \in Locations : Authenticate(r, state, location)
    \/ Exchange(r)
    \/ FetchProfile(r)
    \/ GetUserDataByOAuth(r)
    \/ Reconcile(r)
    \/ IssueToken(r)

(***************************************************************************)
(* Topics: GetTopics and GetATopic                                         *)
(***************************************************************************)
Min(a, b) == IF a < b THEN a ELSE b

Limits == -1..MaxLimit
Offsets == -1..MaxOffset
Sorts == {"", "title"}
Queries == {"q", "slug1", "slug2"}

\* the pages the topic storage may answer a read of `limit` records from
\* `offset` with, out of n matching topics (topics are numbered 1..n): the
\* page asked for when both are non-negative, any prefix otherwise
StoragePages(limit, offset, n) ==
  IF limit >= 0 /\ offset >= 0
  THEN {[i \in 1..(IF offset >= n THEN 0 ELSE Min(limit, n - offset)) |-> offset + i]}
  ELSE {[i \in 1..k |-> i] : k \in 0..n}

NoTopics == [isNil |-> TRUE, items |-> <<>>]

\* make([]models.Topic, 0)
EmptyTopics == [isNil |-> FALSE, items |-> <<>>]

\* the results GetFullTopics / GetMetaOfTopics may return: (topics, total, err)
StorageResults(limit, offset) ==
  {[topics |-> NoTopics, total |-> 0, err |-> TRUE]} \cup
  UNION {
    UNION {
      {[topics |-> [isNil |-> nil, items |-> page], total |-> n, err |-> FALSE] :
          nil \in IF page = <<>> THEN BOOLEAN ELSE {FALSE}} :
      page \in StoragePages(limit, offset, n)} : n \in 0..MaxTopics}

NoResponse ==
  [code |-> 0, status |-> "", error |-> "", records |-> NoTopics, record |-> 0,
   total |-> 0, offset |-> 0, limit |-> 0, err |-> FALSE]

\* gin.H{"status": "ok", "records": ..., "meta": MetaOfResponse{...}}
RecordsResponse(topics, total, offset, limit) ==
  [NoResponse EXCEPT !.code = StatusOK, !.status = "ok", !.records = topics,
                     !.total = total, !.offset = offset, !.limit = limit]

\* toPostResponse(err): the error is handed to the caller as an API error
toPostResponse ==
  [NoResponse EXCEPT !.code = StatusInternalServerError, !.status = "error",
                     !.err = TRUE]

\* mutant: the two projections swapped
StorageCall_Swapped(full, mq, limit, offset, sort) ==
  [fn |-> IF full THEN "GetMetaOfTopics" ELSE "GetFullTopics",
   mq |-> mq, limit |-> limit, offset |-> offset, sort |-> sort]

\* GetTopics lines 37-41, GetATopic lines 72-76: the storage call made
StorageCall(full, mq, limit, offset, sort) ==
  [fn |-> IF full THEN "GetFullTopics" ELSE "GetMetaOfTopics",
   mq |-> mq, limit |-> limit, offset |-> offset, sort |-> sort]

\* mutant: no default for an unset limit
LimitOrDefault_None(limit) == limit

\* GetTopics, lines 29-35: the defaults
LimitOrDefault(limit) == IF limit = 0 THEN DefaultLimit ELSE limit
SortOrDefault(sort) == IF sort = "" THEN DefaultSort ELSE sort

\* mutant: the defaults applied before the parse error is answered
ParseErrorResponse_Defaulted(limit, offset) ==
  RecordsResponse(EmptyTopics, 0, offset, LimitOrDefault(limit))

\* GetTopics, lines 21-27: the answer to a parse error
ParseErrorResponse(limit, offset) == RecordsResponse(EmptyTopics, 0, offset, limit)

\* mutant: the nil slice of the storage handed on as it is
TopicsResponse_NilKept(res, limit, offset) ==
  RecordsResponse(res.topics, res.total, offset, limit)

\* mutant: meta.total taken from the size of the page
TopicsResponse_PageTotal(res, limit, offset) ==
  RecordsResponse(IF res.topics.isNil THEN EmptyTopics ELSE res.topics,
                  Len(res.topics.items), offset, limit)

\* GetTopics, lines 47-57: the answer to a storage result without error
TopicsResponse(res, limit, offset) ==
  RecordsResponse(IF res.topics.isNil THEN EmptyTopics ELSE res.topics,
                  res.total, offset, limit)

\* GetTopics: perr, mq, limit, offset, sort, full are what GetQueryParam
\* returned, res what the storage call returned. The handlers keep nothing
\* from one request to the next, so a behaviour serves one topic request.
GetTopics(perr, mq, limit, offset, sort, full, res) ==
  /\ tReq.op = "none"
  /\ tReq' = [op |-> "GetTopics", perr |-> perr, mq |-> mq, limit |-> limit,
              offset |-> offset, sort |-> sort, full |-> full, res |-> res]
  /\ IF perr
     THEN /\ tCalls' = <<>>
          /\ tResp' = ParseErrorResponse(limit, offset)
     ELSE /\ tCalls' = <<StorageCall(full, mq, LimitOrDefault(limit), offset,
                                     SortOrDefault(sort))>>
          /\ tResp' = IF res.err THEN toPostResponse
                      ELSE TopicsResponse(res, LimitOrDefault(limit), offset)
  /\ UNCHANGED oauthVars

\* mutant: an empty result answered as a found record
TopicResponse_AlwaysFound(res) ==
  [NoResponse EXCEPT !.code = StatusOK, !.status = "ok",
                     !.record = IF Len(res.topics.items) = 0 THEN 0
                                ELSE res.topics.items[1]]

\* GetATopic, lines 82-86
TopicResponse(res) ==
  IF Len(res.topics.items) = 0
  THEN [NoResponse EXCEPT !.code = StatusNotFound, !.status = "Record Not Found",
                          !.error = "Record Not Found"]
  ELSE [NoResponse EXCEPT !.code = StatusOK, !.status = "ok",
                          !.record = res.topics.items[1]]

\* mutant: the error of the storage call not looked at
GetATopic_ErrIgnored(slug, full, res) ==
  /\ tReq.op = "none"
  /\ tReq' = [op |-> "GetATopic", perr |-> FALSE, mq |-> slug, limit |-> 1,
              offset |-> 0, sort |-> DefaultSort, full |-> full, res |-> res]
  /\ tCalls' = <<StorageCall(full, slug, 1, 0, DefaultSort)>>
  /\ tResp' = TopicResponse(res)
  /\ UNCHANGED oauthVars

\* GetATopic: slug and full from the request, res what the storage call returned
GetATopic(slug, full, res) ==
  /\ tReq.op = "none"
  /\ tReq' = [op |-> "GetATopic", perr |-> FALSE, mq |-> slug, limit |-> 1,
              offset |-> 0, sort |-> DefaultSort, full |-> full, res |-> res]
  /\ tCalls' = <<StorageCall(full, slug, 1, 0, DefaultSort)>>
  /\ tResp' = IF res.err THEN toPostResponse ELSE TopicResponse(res)
  /\ UNCHANGED oauthVars

TopicsNext ==
  \/ \E perr \in BOOLEAN, mq \in Queries, limit \in Limits, offset \in Offsets,
        sort \in Sorts, full \in BOOLEAN :
       \E res \in (IF perr THEN {[topics |-> NoTopics, total |-> 0, err |-> FALSE]}
                   ELSE StorageResults(LimitOrDefault(limit), offset)) :
         GetTopics(perr, mq, limit, offset, sort, full, res)
  \/ \E slug \in Queries \ {"q"}, full \in BOOLEAN :
       \E res \in StorageResults(1, 0) : GetATopic(slug, full, res)

(***************************************************************************)
(* Specifications                                                          *)
(***************************************************************************)
Init ==
  /\ oauthConf = Nil
  /\ users = [a \in AIds |-> IF a = "fb1" THEN NewUser(a, 1) ELSE ZeroUser]
  /\ req = [r \in Reqs |-> IdleReq]
  /\ tReq = [op |-> "none", perr |-> FALSE, mq |-> "", limit |-> 0, offset |-> 0,
             sort |-> "", full |-> FALSE,
             res |-> [topics |-> NoTopics, total |-> 0, err |-> FALSE]]
  /\ tCalls = <<>>
  /\ tResp = NoResponse

Next == OAuthNext \/ TopicsNext

Spec == Init /\ [][Next]_vars

\* The OAuth handlers and the topic handlers share no state, so the properties
\* of each are checked under the specification of that family alone.
SpecOAuth == Init /\ [][OAuthNext]_vars

SpecTopics == Init /\ [][TopicsNext]_vars

(***************************************************************************)
(* Vocabulary of the properties                                            *)
(***************************************************************************)
Callbacks == {r \in Reqs : req[r].kind = "callback"}
Begins == {r \in Reqs : req[r].kind = "begin"}

Count(calls, op) == Cardinality({i \in 1..Len(calls) : calls[i] = op})

\* the request's last response write is the redirect to `location`
EndsAtLocation(r) ==
  /\ req[r].pc = "done" /\ req[r].resp # <<>>
  /\ req[r].resp[Len(req[r].resp)].kind = "redirect"
  /\ req[r].resp[Len(req[r].resp)].url # loginPath

LastURL(r) == req[r].resp[Len(req[r].resp)].url

\* the request wrote a redirect to the login path
RedirectsToLogin(r) ==
  \E i \in 1..Len(req[r].resp) : req[r].resp[i] = Redirect(loginPath)

\* the request wrote a redirect to something else than the login path
RedirectsElsewhere(r) ==
  \E i \in 1..Len(req[r].resp) :
    req[r].resp[i].kind = "redirect" /\ req[r].resp[i].url # loginPath

\* the key=value pairs of a query string, the value as its chunks
ParamEnd(q, i) ==
  CHOOSE j \in i..(Len(q) + 1) :
    /\ (j = Len(q) + 1 \/ q[j] = "&")
    /\ \A k \in i..(j - 1) : q[k] # "&"

QueryParams(q) ==
  {<<q[i - 1], SubSeq(q, i + 1, ParamEnd(q, i + 1) - 1)>> :
     i \in {j \in 2..Len(q) : q[j] = "=" /\ (IF j = 2 THEN TRUE ELSE q[j - 2] = "&")}}

\* the value of the `token` parameter of a URL, <<>> when empty or absent
TokenParam(url) ==
  LET ps == {p \in QueryParams(Parse(url).RawQuery) : p[1] = "token"}
  IN IF ps = {} THEN <<>> ELSE (CHOOSE p \in ps : TRUE)[2]

\* the callback has made its insert-or-update call
Reconciled(r) == req[r].kind = "callback" /\ req[r].pc \in {"token", "done"}
                 /\ Count(req[r].calls, "GetUserDataByOAuth") = 1

(***************************************************************************)
(* C1: a callback whose `state` differs from the configured anti-forgery   *)
(* string never calls oauthConf.Exchange, and it has written a 307         *)
(* redirect to the login path.                                             *)
(***************************************************************************)
C1_StateMismatchNoExchange ==
  \A r \in Callbacks :
    req[r].state # Statestr =>
      /\ Count(req[r].calls, "Exchange") = 0
      /\ req[r].exchangeURL = <<>>
      /\ req[r].pc = "done"
      /\ req[r].resp # <<>>
      /\ req[r].resp[1].kind = "redirect"
      /\ req[r].resp[1].status = 307
      /\ req[r].resp[1].url = AppPath \o <<"/login">>

\* a forged callback was answered while another callback did exchange its code
C1_Witness ==
  \E r, q \in Callbacks :
    /\ req[r].state = "forged" /\ req[r].pc = "done"
    /\ req[q].state = Statestr /\ Count(req[q].calls, "Exchange") = 1

(***************************************************************************)
(* C2, as claimed: a callback that reaches reconciliation makes one insert *)
(* and no update when the account id was not stored, and no insert and one *)
(* update when it was stored, whatever the lookup returned.                *)
(***************************************************************************)
C2_Original ==
  \A r \in Reqs :
    Reconciled(r) =>
      /\ ~req[r].known =>
           /\ Count(req[r].calls, "InsertUserByOAuth") = 1
           /\ Count(req[r].calls, "UpdateOAuthData") = 0
      /\ req[r].known =>
           /\ Count(req[r].calls, "InsertUserByOAuth") = 0
           /\ Count(req[r].calls, "UpdateOAuthData") = 1

(***************************************************************************)
(* C2, amended: the call is chosen by the lookup's error. A lookup that    *)
(* returned an error (the id is not stored, or the read failed) is         *)
(* followed by one insert and no update; a lookup that returned a user is  *)
(* followed by no insert and one update. An id that was not stored always  *)
(* gets the insert.                                                        *)
(***************************************************************************)
C2_InsertXorUpdate ==
  \A r \in Reqs :
    Reconciled(r) =>
      /\ (req[r].lookupErr \/ ~req[r].known) =>
           /\ Count(req[r].calls, "InsertUserByOAuth") = 1
           /\ Count(req[r].calls, "UpdateOAuthData") = 0
      /\ (~req[r].lookupErr /\ req[r].known) =>
           /\ Count(req[r].calls, "InsertUserByOAuth") = 0
           /\ Count(req[r].calls, "UpdateOAuthData") = 1

\* one callback updated a stored account after its lookup succeeded, another
\* inserted after the lookup of a stored account failed
C2_Witness ==
  \E r, q \in Reqs :
    /\ Reconciled(r) /\ req[r].known /\ ~req[r].lookupErr
    /\ Count(req[r].calls, "UpdateOAuthData") = 1
    /\ Reconciled(q) /\ req[q].known /\ req[q].lookupErr
    /\ Count(req[q].calls, "InsertUserByOAuth") = 1

(***************************************************************************)
(* C3: a callback that ends with the redirect to `location` goes to the    *)
(* location's own path, and every query parameter of `location` is in the  *)
(* redirect target with the same value.                                    *)
(***************************************************************************)
C3_LocationParamsKept ==
  \A r \in Callbacks :
    EndsAtLocation(r) =>
      /\ Parse(LastURL(r)).path = Parse(req[r].location).path
      /\ QueryParams(Parse(req[r].location).RawQuery)
           \subseteq QueryParams(Parse(LastURL(r)).RawQuery)

(***************************************************************************)
(* C4: every callback that ends with the redirect to `location` carries a  *)
(* non-empty `token` parameter, also when RetrieveToken returned an error. *)
(***************************************************************************)
C4_TokenNonEmpty ==
  \A r \in Callbacks : EndsAtLocation(r) => TokenParam(LastURL(r)) # <<>>

(***************************************************************************)
(* C5: the token a callback issues is the one derived from the fields of   *)
(* the local user stored for the profile's account id, also when this      *)
(* callback created that user.                                             *)
(***************************************************************************)
C5_TokenOfLocalUser ==
  \A r \in Callbacks :
    (EndsAtLocation(r) /\ ~req[r].tokenErr /\ Stored(req[r].aid)) =>
      LET u == users[req[r].aid] IN
      TokenParam(LastURL(r)) =
        RetrieveToken(u.ID, u.Privilege, u.FirstName, u.LastName, u.Email, FALSE)

(***************************************************************************)
(* C6: a callback in which a step failed (state mismatch, code exchange,   *)
(* profile fetch, body read, lookup or insert, malformed location) has     *)
(* redirected to the login path and has not redirected to `location`.      *)
(***************************************************************************)
StepFailed(r) ==
  \/ req[r].failed # ""
  \/ req[r].insertErr
  \/ (req[r].known /\ req[r].lookupErr)

C6_FailureGoesToLogin ==
  \A r \in Callbacks :
    (req[r].pc = "done" /\ StepFailed(r)) =>
      RedirectsToLogin(r) /\ ~RedirectsElsewhere(r)

(***************************************************************************)
(* C7: the authorization URL a BeginAuth request redirects to carries the  *)
(* redirect URI built from that request's own `location` (the default site *)
(* when it is empty), under every interleaving of the requests.            *)
(***************************************************************************)
C7_OwnLocationInRedirectURI ==
  \A r \in Begins :
    req[r].pc = "done" =>
      \E p \in QueryParams(Parse(req[r].resp[1].url).RawQuery) :
           /\ p[1] = "redirect_uri"
           /\ p[2] = QueryEscape(
                FacebookURL \o <<"?", "location", "=">> \o
                QueryEscape(IF req[r].location = <<>>
                            THEN <<"https", ":", "/", "/", "www.twreporter.org">>
                            ELSE req[r].location))

(***************************************************************************)
(* C8: when GetQueryParam reported an error, GetTopics answers 200 "ok"    *)
(* without an error, with an empty (non-nil) `records`, meta.total = 0,    *)
(* meta.offset and meta.limit as the parser returned them, and it has made *)
(* no storage call.                                                        *)
(***************************************************************************)
C8_ParseErrorEmptyPage ==
  (tReq.op = "GetTopics" /\ tReq.perr) =>
    /\ tResp.code = 200 /\ tResp.status = "ok" /\ ~tResp.err
    /\ tResp.records = [isNil |-> FALSE, items |-> <<>>]
    /\ tResp.total = 0
    /\ tResp.offset = tReq.offset
    /\ tResp.limit = tReq.limit
    /\ tCalls = <<>>

\* a parse error on a request whose limit is unset and whose offset is set
C8_Witness ==
  /\ tReq.op = "GetTopics" /\ tReq.perr
  /\ tReq.limit = 0 /\ tReq.offset = 1 /\ tResp.code = 200

C11_RecordsNeverNil ==
  (tReq.op = "GetTopics" /\ tResp.status = "ok") => ~tResp.records.isNil

\* the storage call returned a nil slice and no error
C11_Witness ==
  /\ tReq.op = "GetTopics" /\ ~tReq.perr
  /\ ~tReq.res.err /\ tReq.res.topics.isNil
  /\ tResp.status = "ok" /\ tResp.records.items = <<>>

(***************************************************************************)
(* C12: GetATopic answers an empty result without error with 404 and the   *)
(* body {"status": "Record Not Found", "error": "Record Not Found"}, and a *)
(* non-empty result with 200 and `record` the first element of the result. *)
(***************************************************************************)
C12_NotFoundOrFirst ==
  (tReq.op = "GetATopic" /\ ~tReq.res.err) =>
    IF tReq.res.topics.items = <<>>
    THEN /\ tResp.code = 404 /\ ~tResp.err
         /\ tResp.status = "Record Not Found"
         /\ tResp.error = "Record Not Found"
    ELSE /\ tResp.code = 200 /\ ~tResp.err
         /\ tResp.status = "ok"
         /\ tResp.record = tReq.res.topics.items[1]

\* a lookup of a slug no topic has, the storage returning an empty slice
C12_Witness ==
  /\ tReq.op = "GetATopic" /\ ~tReq.res.err
  /\ tReq.res.topics = [isNil |-> FALSE, items |-> <<>>]
  /\ tResp.code = 404

(***************************************************************************)
(* C13: the calls of a callback are made in the order code exchange,       *)
(* profile fetch, user lookup, insert or update, token derivation, and the *)
(* redirect to `location` comes after all of them; a callback whose state  *)
(* check, code exchange or profile fetch failed makes no storage call and  *)
(* derives no token.                                                       *)
(***************************************************************************)
IsPrefix(a, b) == Len(a) <= Len(b) /\ SubSeq(b, 1, Len(a)) = a

CallOrders ==
  {<<"Exchange", "Get", "GetUserDataByOAuth", c, "RetrieveToken">> :
     c \in {"InsertUserByOAuth", "UpdateOAuthData"}}

C13_StepOrder ==
  \A r \in Callbacks :
    /\ \E o \in CallOrders : IsPrefix(req[r].calls, o)
    /\ EndsAtLocation(r) => req[r].calls \in CallOrders
    /\ (req[r].state # Statestr \/ req[r].failed \in {"state", "exchange", "get", "read"}) =>
         \A i \in 1..Len(req[r].calls) :
           req[r].calls[i] \notin {"GetUserDataByOAuth", "InsertUserByOAuth",
                                   "UpdateOAuthData", "RetrieveToken"}

\* one callback went through all the steps, another stopped at a failed
\* profile fetch
C13_Witness ==
  \E r, q \in Callbacks :
    /\ EndsAtLocation(r) /\ Len(req[r].calls) = 5
    /\ req[q].pc = "done" /\ req[q].failed = "get"
    /\ req[q].calls = <<"Exchange", "Get">>

C15_StorageErrorSurfaced ==
  (tReq.op \in {"GetTopics", "GetATopic"} /\ ~tReq.perr /\ tReq.res.err) =>
    /\ tResp.err
    /\ tResp.code \notin {200, 404}
    /\ tResp.status \notin {"ok", "Record Not Found"}

\* the storage call of a GetATopic request failed
C15_Witness ==
  /\ tReq.op = "GetATopic" /\ tReq.res.err /\ tResp.err
  /\ Len(tCalls) = 1

(***************************************************************************)
(* C16: a GetTopics request that passed parsing, and every GetATopic       *)
(* request, makes exactly one storage call: GetFullTopics when `full` is   *)
(* true and GetMetaOfTopics otherwise.                                     *)
(***************************************************************************)
C16_OneStorageCall ==
  (tReq.op \in {"GetTopics", "GetATopic"} /\ ~tReq.perr) =>
    /\ Len(tCalls) = 1
    /\ tReq.full => tCalls[1].fn = "GetFullTopics"
    /\ ~tReq.full => tCalls[1].fn = "GetMetaOfTopics"

\* a GetTopics request for the full projection
C16_Witness ==
  /\ tReq.op = "GetTopics" /\ ~tReq.perr /\ tReq.full
  /\ Len(tCalls) = 1 /\ tCalls[1].fn = "GetFullTopics"

(***************************************************************************)
(* C17: a callback that has returned has written exactly one HTTP          *)
(* response, a 307 redirect or a JSON error (401/500), never a redirect    *)
(* and a JSON body both.                                                   *)
(***************************************************************************)
C17_OneResponse ==
  \A r \in Callbacks :
    req[r].pc = "done" =>
      /\ Len(req[r].resp) = 1
      /\ ~(\E i, j \in 1..Len(req[r].resp) :
             req[r].resp[i].kind = "redirect" /\ req[r].resp[j].kind = "json")

(***************************************************************************)
(* C18: the code exchange of a callback never uses oauthConf while it is   *)
(* nil: no callback, also one that arrives before any BeginAuth has run,   *)
(* dereferences a nil configuration.                                       *)
(***************************************************************************)
C18_NoNilDereference ==
  \A r \in Callbacks : req[r].pc # "panic" /\ req[r].failed # "nil"

(***************************************************************************)
(* C19: when the BeginAuth of a login flow has been answered with the      *)
(* redirect URI of its own non-empty `location` and the callback of that   *)
(* flow (same `location`) then exchanges its code, the redirect URL        *)
(* oauthConf holds at that exchange is the one built from the flow's       *)
(* location, also when the BeginAuth of another flow ran in between.       *)
(***************************************************************************)
C19_ExchangeUsesOwnRedirectURL ==
  [][\A a, c \in Reqs :
       (/\ req[a].kind = "begin" /\ req[a].pc = "done"
        /\ req[a].location # <<>>
        /\ <<"redirect_uri", QueryEscape(RedirectURLOf(req[a].location))>>
             \in QueryParams(Parse(req[a].resp[1].url).RawQuery)
        /\ req[c].kind = "callback" /\ req[c].pc = "exchange"
        /\ req[c].location = req[a].location
        /\ Count(req'[c].calls, "Exchange") = 1) =>
         req'[c].exchangeURL =
           FacebookURL \o <<"?", "location", "=">> \o QueryEscape(req[c].location)]_vars

====
